---- MODULE Spec2Model ----
(***************************************************************************)
(* A model of the ruma_api crate: the Endpoint, Request, Response and      *)
(* PathParams traits, the Info metadata record, the request and response   *)
(* container families of mod request / mod response, the endpoint! macro   *)
(* and the `create` endpoint of the crate documentation.                   *)
(*                                                                         *)
(* Strings whose contents matter (paths) are sequences of one-character    *)
(* strings; the other string literals are TLA+ strings.                    *)
(***************************************************************************)
EXTENDS Integers, Sequences, FiniteSets, TLC

VARIABLES def, request, response, path, returned, calls

vars == <<def, request, response, path, returned, calls>>

(***************************************************************************)
(* Bounds of the model.                                                    *)
(***************************************************************************)
MaxCalls == 2

MaxLocalLen == 2

Threads == {"t1", "t2"}

(***************************************************************************)
(* enum Method: the variants with their discriminants in declaration order.*)
(***************************************************************************)
Method == [Delete |-> 0, Get |-> 1, Post |-> 2, Put |-> 3]

MethodIdents == DOMAIN Method

(***************************************************************************)
(* The traits: the items each declares, and the bounds the Endpoint trait  *)
(* puts on its two associated types.                                       *)
(***************************************************************************)
TraitMethods ==
    [Endpoint   |-> {"info"},
     Request    |-> {},
     Response   |-> {},
     PathParams |-> {"request_path"}]

AssociatedTypeBounds == [Request |-> {"Request"}, Response |-> {"Response"}]

\* What the Endpoint trait lets its user call on a value of the associated type.
RequiredOf(assoc) == UNION {TraitMethods[b] : b \in AssociatedTypeBounds[assoc]}

(***************************************************************************)
(* mod request: the fields of each container.                              *)
(***************************************************************************)
Components == {"body", "headers", "path_params", "query_params"}

RequestFields_NoBodyKeepsBody ==
    [All                      |-> {"body", "headers", "path_params", "query_params"},
     BodyOnly                 |-> {"body"},
     HeadersOnly              |-> {"headers"},
     PathParamsOnly           |-> {"path_params"},
     QueryParamsOnly          |-> {"query_params"},
     NoBody                   |-> {"body", "headers", "path_params", "query_params"},
     NoHeaders                |-> {"body", "path_params", "query_params"},
     NoPathParams             |-> {"body", "headers", "query_params"},
     NoQueryParams            |-> {"body", "headers", "path_params"},
     BodyAndHeaders           |-> {"body", "headers"},
     BodyAndPathParams        |-> {"body", "path_params"},
     BodyAndQueryParams       |-> {"body", "query_params"},
     HeadersAndPathParams     |-> {"headers", "path_params"},
     HeadersAndQueryParams    |-> {"headers", "query_params"},
     PathParamsAndQueryParams |-> {"path_params", "query_params"}]

RequestFields ==
    [All                      |-> {"body", "headers", "path_params", "query_params"},
     BodyOnly                 |-> {"body"},
     HeadersOnly              |-> {"headers"},
     PathParamsOnly           |-> {"path_params"},
     QueryParamsOnly          |-> {"query_params"},
     NoBody                   |-> {"headers", "path_params", "query_params"},
     NoHeaders                |-> {"body", "path_params", "query_params"},
     NoPathParams             |-> {"body", "headers", "query_params"},
     NoQueryParams            |-> {"body", "headers", "path_params"},
     BodyAndHeaders           |-> {"body", "headers"},
     BodyAndPathParams        |-> {"body", "path_params"},
     BodyAndQueryParams       |-> {"body", "query_params"},
     HeadersAndPathParams     |-> {"headers", "path_params"},
     HeadersAndQueryParams    |-> {"headers", "query_params"},
     PathParamsAndQueryParams |-> {"path_params", "query_params"}]

RequestContainers == DOMAIN RequestFields

\* The containers with an `impl Request for ...`.
RequestImpls_NoBodyForgotten ==
    {"All", "BodyOnly", "HeadersOnly", "PathParamsOnly", "QueryParamsOnly",
     "NoHeaders", "NoPathParams", "NoQueryParams", "BodyAndHeaders",
     "BodyAndPathParams", "BodyAndQueryParams", "HeadersAndPathParams",
     "HeadersAndQueryParams", "PathParamsAndQueryParams"}

RequestImpls ==
    {"All", "BodyOnly", "HeadersOnly", "PathParamsOnly", "QueryParamsOnly",
     "NoBody", "NoHeaders", "NoPathParams", "NoQueryParams", "BodyAndHeaders",
     "BodyAndPathParams", "BodyAndQueryParams", "HeadersAndPathParams",
     "HeadersAndQueryParams", "PathParamsAndQueryParams"}

\* The request containers an endpoint needing exactly the components S can use.
RequestContainersFor(S) == {c \in RequestContainers : RequestFields[c] = S}

(***************************************************************************)
(* mod response: the fields of each container.                             *)
(***************************************************************************)
ResponseFields_NoBodyKeepsBody ==
    [All        |-> {"body", "headers", "status"},
     NoBody     |-> {"body", "headers", "status"},
     NoHeaders  |-> {"body", "status"},
     StatusOnly |-> {"status"}]

ResponseFields_StatusOnlyHasHeaders ==
    [All        |-> {"body", "headers", "status"},
     NoBody     |-> {"headers", "status"},
     NoHeaders  |-> {"body", "status"},
     StatusOnly |-> {"headers", "status"}]

ResponseFields ==
    [All        |-> {"body", "headers", "status"},
     NoBody     |-> {"headers", "status"},
     NoHeaders  |-> {"body", "status"},
     StatusOnly |-> {"status"}]

ResponseContainers == DOMAIN ResponseFields

\* The containers with an `impl Response for ...`.
ResponseImpls == {"All", "NoBody", "NoHeaders", "StatusOnly"}

\* The response containers for a response whose optional components are S.
ResponseContainersFor(S) ==
    {c \in ResponseContainers : ResponseFields[c] \ {"status"} = S}

(***************************************************************************)
(* Paths.  A path or a path template is a sequence of characters; Split    *)
(* cuts it at every "/", Join puts the segments back together.  The crate  *)
(* never reads a router path: Resolve and NoPlaceholder say what it is for *)
(* a path to be a router path with its ':name' segments filled in, and are *)
(* used only to state the path resolution property.                        *)
(***************************************************************************)
RECURSIVE SplitFrom(_, _, _)
SplitFrom(s, cur, acc) ==
    IF s = <<>> THEN Append(acc, cur)
    ELSE IF Head(s) = "/" THEN SplitFrom(Tail(s), <<>>, Append(acc, cur))
    ELSE SplitFrom(Tail(s), Append(cur, Head(s)), acc)

Split(s) == SplitFrom(s, <<>>, <<>>)

RECURSIVE Join(_)
Join(segs) ==
    IF Len(segs) = 0 THEN <<>>
    ELSE IF Len(segs) = 1 THEN segs[1]
    ELSE segs[1] \o <<"/">> \o Join(Tail(segs))

\* A ':name' segment of a router path.
IsPlaceholder(seg) == seg # <<>> /\ Head(seg) = ":"

\* The template with every ':name' segment replaced by params[name].
Resolve(template, params) ==
    LET segs == Split(template)
    IN  Join([i \in 1..Len(segs) |->
                IF IsPlaceholder(segs[i]) THEN params[Tail(segs[i])] ELSE segs[i]])

NoPlaceholder(p) == \A i \in 1..Len(Split(p)) : ~IsPlaceholder(Split(p)[i])

(***************************************************************************)
(* The `create` endpoint of the crate documentation.                       *)
(***************************************************************************)
\* "/_matrix/client/r0/directory/room/:room_alias"
create_router_path ==
    <<"/", "_", "m", "a", "t", "r", "i", "x", "/", "c", "l", "i", "e", "n", "t",
      "/", "r", "0", "/", "d", "i", "r", "e", "c", "t", "o", "r", "y", "/",
      "r", "o", "o", "m", "/", ":", "r", "o", "o", "m", "_", "a", "l", "i", "a", "s">>

\* The name of the only field of create::PathParams.
room_alias_name == <<"r", "o", "o", "m", "_", "a", "l", "i", "a", "s">>

\* Display of a RoomAliasId: the sigil, the alias, a colon, the hostname.
Display(id) == <<"#">> \o id.alias \o <<":">> \o id.hostname

\* A request_path that forgets to substitute: it returns the router path.
request_path_Unsubstituted(self) == create_router_path

\* format!("/_matrix/client/r0/directory/room/{}", self.room_alias)
request_path(self) ==
    <<"/", "_", "m", "a", "t", "r", "i", "x", "/", "c", "l", "i", "e", "n", "t",
      "/", "r", "0", "/", "d", "i", "r", "e", "c", "t", "o", "r", "y", "/",
      "r", "o", "o", "m", "/">> \o Display(self.room_alias)

create_description == "Matrix implementation of room directory."

create_name == "room_directory"

\* impl ruma_api::Endpoint for Endpoint, written by hand.
create_Endpoint ==
    [Request  |-> "BodyAndPathParams",
     Response |-> "StatusOnly",
     info     |-> [description             |-> create_description,
                   request_method          |-> Method.Put,
                   name                    |-> create_name,
                   router_path             |-> create_router_path,
                   requires_authentication |-> TRUE,
                   rate_limited            |-> FALSE]]

(***************************************************************************)
(* The endpoint! macro: its expansion for the six inputs `in`, in a module *)
(* whose Request and Response types are scope.Request and scope.Response.  *)
(***************************************************************************)
endpoint_macro_FlagsSwapped(in, scope) ==
    [Request  |-> scope.Request,
     Response |-> scope.Response,
     info     |-> [description             |-> in.description,
                   name                    |-> in.name,
                   rate_limited            |-> in.requires_authentication,
                   request_method          |-> Method[in.request_method],
                   requires_authentication |-> in.rate_limited,
                   router_path             |-> in.router_path]]

endpoint_macro(in, scope) ==
    [Request  |-> scope.Request,
     Response |-> scope.Response,
     info     |-> [description             |-> in.description,
                   name                    |-> in.name,
                   rate_limited            |-> in.rate_limited,
                   request_method          |-> Method[in.request_method],
                   requires_authentication |-> in.requires_authentication,
                   router_path             |-> in.router_path]]

(***************************************************************************)
(* The inputs of the model.                                                *)
(***************************************************************************)
\* "/a/:x/b"
other_router_path == <<"/", "a", "/", ":", "x", "/", "b">>

MacroInputs ==
    [description             : {create_description, "d"},
     name                    : {create_name, "n"},
     rate_limited            : BOOLEAN,
     request_method          : MethodIdents,
     requires_authentication : BOOLEAN,
     router_path             : {create_router_path, other_router_path}]

\* The six values of the hand-written `create` endpoint, as macro inputs.
CreateInputs ==
    [description             |-> create_description,
     name                    |-> create_name,
     rate_limited            |-> FALSE,
     request_method          |-> "Put",
     requires_authentication |-> TRUE,
     router_path             |-> create_router_path]

Scopes == [Request : RequestContainers, Response : ResponseContainers]

CreateScope == [Request |-> "BodyAndPathParams", Response |-> "StatusOnly"]

HandWritten == [by |-> "hand"]

MacroDef(in, scope) == [by |-> "macro", input |-> in, scope |-> scope]

\* Every endpoint definition: the hand-written one and every macro invocation.
AllDefs == {HandWritten} \cup {MacroDef(in, sc) : in \in MacroInputs, sc \in Scopes}

\* The endpoint definitions the specification with every operation starts from.
SomeDefs ==
    {HandWritten,
     MacroDef(CreateInputs, CreateScope),
     MacroDef([CreateInputs EXCEPT !.rate_limited = TRUE, !.request_method = "Get",
                                   !.router_path = other_router_path],
              [Request |-> "NoBody", Response |-> "All"])}

AliasChars == {"f", "o"}

NonEmptySeqs(S, n) == UNION {[1..k -> S] : k \in 1..n}

Hostnames == {<<"o">>, <<"f", "o">>}

\* The RoomAliasId values: an alias of 1..MaxLocalLen characters and a hostname.
RoomAliasIds == [alias : NonEmptySeqs(AliasChars, MaxLocalLen), hostname : Hostnames]

\* The values of create::PathParams.
PathParamsValues == [room_alias : RoomAliasIds]

SomePathParams ==
    {[room_alias |-> [alias |-> <<"f">>, hostname |-> <<"o">>]],
     [room_alias |-> [alias |-> <<"f", "o", "o">>, hostname |-> <<"f", "o">>]]}

Bodies == {"b1", "b2"}

HeaderValues == {"h1"}

QueryValues == {"q1"}

Statuses == {200, 404}

None == [container |-> "None", fields |-> [f \in {} |-> "b1"]]

NoInfo == [description |-> "NoInfo"]

NoPath == <<>>

(***************************************************************************)
(* The state: the endpoint definition in scope, the request and response   *)
(* values last built, the String request_path last returned, and per       *)
(* thread the Info that info() last returned and the number of its calls.  *)
(***************************************************************************)
EndpointImpl ==
    IF def.by = "hand" THEN create_Endpoint ELSE endpoint_macro(def.input, def.scope)

\* An info() that depends on whether it was called before.
info_Stateful ==
    [EndpointImpl.info EXCEPT !.rate_limited = (\E t \in Threads : calls[t] > 0)]

\* Endpoint::info()
info == EndpointImpl.info

InitRest ==
    /\ request = None
    /\ response = None
    /\ path = NoPath
    /\ returned = [t \in Threads |-> NoInfo]
    /\ calls = [t \in Threads |-> 0]

Init == def \in SomeDefs /\ InitRest

InitMacro == def \in AllDefs /\ InitRest

InitPath == def = HandWritten /\ InitRest

\* A struct literal of request container c: exactly the fields c declares.
NewRequest(c, b, h, p, q) ==
    /\ request' = [container |-> c,
                   fields    |-> [f \in RequestFields[c] |->
                                    CASE f = "body"         -> b
                                      [] f = "headers"      -> h
                                      [] f = "path_params"  -> p
                                      [] f = "query_params" -> q]]
    /\ UNCHANGED <<def, response, path, returned, calls>>

\* A struct literal of response container c.
NewResponse(c, b, h, s) ==
    /\ response' = [container |-> c,
                    fields    |-> [f \in ResponseFields[c] |->
                                     CASE f = "body"    -> b
                                       [] f = "headers" -> h
                                       [] f = "status"  -> s]]
    /\ UNCHANGED <<def, request, path, returned, calls>>

\* request.path_params.request_path()
CallRequestPath ==
    /\ request # None
    /\ "path_params" \in DOMAIN request.fields
    /\ path' = request_path(request.fields.path_params)
    /\ UNCHANGED <<def, request, response, returned, calls>>

\* Endpoint::info() called on thread t.
CallInfo(t) ==
    /\ calls[t] < MaxCalls
    /\ returned' = [returned EXCEPT ![t] = info]
    /\ calls' = [calls EXCEPT ![t] = @ + 1]
    /\ UNCHANGED <<def, request, response, path>>

Next ==
    \/ \E c \in RequestContainers, b \in Bodies, h \in HeaderValues,
          p \in SomePathParams, q \in QueryValues : NewRequest(c, b, h, p, q)
    \/ \E c \in ResponseContainers, b \in Bodies, h \in HeaderValues,
          s \in Statuses : NewResponse(c, b, h, s)
    \/ CallRequestPath
    \/ \E t \in Threads : CallInfo(t)

Spec == Init /\ [][Next]_vars

NextMacro == \E t \in Threads : CallInfo(t)

SpecMacro == InitMacro /\ [][NextMacro]_vars

NextPath ==
    \/ \E b \in Bodies, h \in HeaderValues, p \in PathParamsValues, q \in QueryValues :
          NewRequest(create_Endpoint.Request, b, h, p, q)
    \/ CallRequestPath

SpecPath == InitPath /\ [][NextPath]_vars

(***************************************************************************)
(* The claims.                                                             *)
(***************************************************************************)
\* The names under which a trait would declare the two wire conversions.
WireConversions == {"into_wire", "try_from_wire"}

C4_RequestShapeFamily ==
    /\ Cardinality(RequestContainers) = 15
    /\ \A c \in RequestContainers :
          RequestFields[c] \subseteq Components /\ RequestFields[c] # {}
    /\ \A S \in (SUBSET Components) \ {{}} :
          Cardinality(RequestContainersFor(S)) = 1
    /\ request # None =>
          /\ request.container \in RequestContainers
          /\ DOMAIN request.fields \in (SUBSET Components) \ {{}}
          /\ RequestContainersFor(DOMAIN request.fields) = {request.container}

C4_Witness ==
    /\ request # None
    /\ request.container = "NoBody"
    /\ DOMAIN request.fields = {"headers", "path_params", "query_params"}

C6_Original ==
    /\ EndpointImpl.Request \in RequestContainers
    /\ EndpointImpl.Response \in ResponseContainers
    /\ RequestContainersFor({}) # {}
    /\ ResponseContainersFor({}) # {}

\* C6 as amended: a response with neither body nor headers has the dedicated
\* status-only container StatusOnly, whose values hold a status and nothing
\* else; mod request has no empty-request container: every request container,
\* and every request value built, has at least one component.
C6_StatusOnlyButNoEmptyRequest ==
    /\ ResponseContainersFor({}) = {"StatusOnly"}
    /\ RequestContainersFor({}) = {}
    /\ (response # None /\ response.container = "StatusOnly")
          => DOMAIN response.fields = {"status"}
    /\ (response # None /\ DOMAIN response.fields = {"status"})
          => response.container = "StatusOnly"
    /\ request # None => DOMAIN request.fields # {}

C6_Witness ==
    /\ response # None /\ response.container = "StatusOnly"
    /\ request # None /\ Cardinality(DOMAIN request.fields) = 1

\* The path parameters of a create::PathParams value, by placeholder name.
ParamsOf(p) == [n \in {room_alias_name} |-> Display(p.room_alias)]

\* "/a/foo/b"
a_foo_b == <<"/", "a", "/", "f", "o", "o", "/", "b">>

C9_MetadataStability ==
    /\ [](\A t1, t2 \in Threads :
             (returned[t1] # NoInfo /\ returned[t2] # NoInfo)
                => returned[t1] = returned[t2])
    /\ [][/\ \A t \in Threads : returned[t] # NoInfo => returned'[t] = returned[t]
          /\ info' = info]_vars

C9_Witness ==
    /\ calls["t1"] = 2 /\ calls["t2"] = 1
    /\ returned["t1"] = info /\ returned["t2"] = info
    /\ request # None /\ response # None /\ path # NoPath

====
